---------------------------- MODULE Spec2Model ----------------------------
(***************************************************************************)
(* Model of the Viral-AI-shorts generation orchestrator                    *)
(* (src/services/geminiService.ts), of the script generator modal          *)
(* (src/components/ScriptGeneratorModal.tsx: its parsing of the draft, its *)
(* views, its state and buttons) and of the finalized-script view of the   *)
(* history detail modal (src/components/HistoryDetailModal.tsx).           *)
(*                                                                         *)
(* Strings are sequences of characters (one-character strings), so that    *)
(* trim, split, startsWith, substring and toLowerCase are computed as      *)
(* JavaScript computes them.                                               *)
(***************************************************************************)
EXTENDS Integers, Sequences, FiniteSets, TLC

VARIABLES
    \* ---- finalizeScriptAsJson's fence stripping (lines 119-127) ----
    fenceParts,      \* how the response text was put together
    fenceResponse,   \* response.text
    fenceRuns,       \* the successive results of the strip-and-trim step
    \* ---- getTrendingTopics' parsing (lines 204-206) ----
    topicsResponse,  \* response.text
    topicsResult,    \* the returned string[]
    topicsDone,      \* whether the parsing has run
    \* ---- ScriptGeneratorModal's parsing of the draft (lines 40-64) ----
    script,                \* the script prop
    narrationSuggestions,  \* useMemo, lines 40-47
    scriptTable,           \* useMemo, lines 40-47
    parsedSuggestions,     \* useMemo, lines 49-64
    rendered,              \* whether the modal has rendered the script
    \* ---- the orchestrator (geminiService.ts) ----
    apiKey,      \* whether process.env.API_KEY is set
    chat,        \* whether a Chat made by startScriptChat exists
    args,        \* genre and duration of the last generateShortsIdeas
    op,          \* the operation last invoked
    pc,          \* where that call stands
    keyAtCall,   \* whether the key was set when it was invoked
    requests,    \* the network requests it has issued
    thrown,      \* the message of the error it threw
    cause,       \* what made it throw
    returned,    \* the value it returned
    operation,   \* generateVideoForIdea: the job handle last received
    polls,       \* generateVideoForIdea: the status polls issued
    fetches,     \* generateVideoForIdea: the download fetches issued
    responseOk,  \* generateVideoForIdea: response.ok of the download
    \* ---- the workflow of each idea ----
    flow,        \* per idea: script, finalJsonScript, seoContent, pending call
    \* ---- ScriptGeneratorModal's renderScriptTable (lines 93-137) ----
    markdown,    \* the text handed to renderScriptTable
    tableView,   \* what renderScriptTable returned
    \* ---- ScriptGeneratorModal's state, props and callbacks ----
    finalJsonScript,         \* the finalJsonScript prop
    suggestion,              \* useState, line 31
    jsonSceneDuration,       \* useState, line 34
    selectedNarrationStyle,  \* useState, line 35
    numberOfScenes,          \* useState, line 36
    calls,                   \* the onGenerate / onFinalize calls not settled yet
    picked,                  \* whether the user chose a style for this draft
    \* ---- the views of a finalized script ----
    jsonString,   \* the finalized script handed to the two views
    finalView,    \* ScriptGeneratorModal's renderFinalJson(jsonString)
    historyView   \* HistoryDetailModal's renderJson(jsonString)

fenceVars == <<fenceParts, fenceResponse, fenceRuns>>
topicsVars == <<topicsResponse, topicsResult, topicsDone>>
modalVars == <<script, narrationSuggestions, scriptTable, parsedSuggestions, rendered>>
videoVars == <<operation, polls, fetches, responseOk>>
callVars == <<op, pc, keyAtCall, requests, thrown, cause, returned, videoVars>>
orchVars == <<apiKey, chat, args, callVars>>
tableVars == <<markdown, tableView>>
panelVars ==
    <<finalJsonScript, suggestion, jsonSceneDuration, selectedNarrationStyle,
      numberOfScenes, calls, picked>>
jsonVars == <<jsonString, finalView, historyView>>
uiVars == <<tableVars, panelVars, jsonVars>>
vars == <<fenceVars, topicsVars, modalVars, orchVars, flow, uiVars>>

(***************************************************************************)
(* JavaScript string primitives.                                           *)
(***************************************************************************)
WhiteSpace == {" ", "\n", "\t", "\r"}

IsSpace(c) == c \in WhiteSpace

\* s.substring(from, to): characters from 0-based index from up to to-1.
Substring(s, from, to) == SubSeq(s, from + 1, to)

StartsWith(s, p) == Len(s) >= Len(p) /\ SubSeq(s, 1, Len(p)) = p

EndsWith(s, p) == Len(s) >= Len(p) /\ SubSeq(s, Len(s) - Len(p) + 1, Len(s)) = p

RECURSIVE TrimStart(_)
TrimStart(s) ==
    IF s # <<>> /\ IsSpace(Head(s)) THEN TrimStart(Tail(s)) ELSE s

RECURSIVE TrimEnd(_)
TrimEnd(s) ==
    IF s # <<>> /\ IsSpace(s[Len(s)]) THEN TrimEnd(SubSeq(s, 1, Len(s) - 1)) ELSE s

\* s.trim()
Trim(s) == TrimEnd(TrimStart(s))

LowerChar(c) ==
    CASE c = "A" -> "a" [] c = "B" -> "b" [] c = "C" -> "c" [] c = "D" -> "d"
      [] c = "E" -> "e" [] c = "F" -> "f" [] c = "G" -> "g" [] c = "H" -> "h"
      [] c = "I" -> "i" [] c = "J" -> "j" [] c = "K" -> "k" [] c = "L" -> "l"
      [] c = "M" -> "m" [] c = "N" -> "n" [] c = "O" -> "o" [] c = "P" -> "p"
      [] c = "Q" -> "q" [] c = "R" -> "r" [] c = "S" -> "s" [] c = "T" -> "t"
      [] c = "U" -> "u" [] c = "V" -> "v" [] c = "W" -> "w" [] c = "X" -> "x"
      [] c = "Y" -> "y" [] c = "Z" -> "z" [] OTHER -> c

\* s.toLowerCase()
ToLowerCase(s) == [i \in 1..Len(s) |-> LowerChar(s[i])]

\* s.split(c) for a one-character separator c: never empty, one more piece
\* than there are separators.
RECURSIVE SplitChar(_, _)
SplitChar(s, c) ==
    IF \A i \in 1..Len(s) : s[i] # c
    THEN <<s>>
    ELSE LET k == CHOOSE i \in 1..Len(s) :
                      s[i] = c /\ \A j \in 1..(i - 1) : s[j] # c
         IN  <<SubSeq(s, 1, k - 1)>> \o SplitChar(SubSeq(s, k + 1, Len(s)), c)

\* All sequences over alphabet of length at most n.
SeqsUpTo(alphabet, n) == UNION {[1..k -> alphabet] : k \in 0..n}

(***************************************************************************)
(* finalizeScriptAsJson: the strip-and-trim step applied to response.text. *)
(***************************************************************************)
\* The backquote character (the lexer of TLA+ takes no backquote in a string).
BQ == "BQ"

FenceJson == <<BQ, BQ, BQ, "j", "s", "o", "n">>
Fence == <<BQ, BQ, BQ>>

StripFence(text) ==
    LET t0 == Trim(text)
        t1 == IF StartsWith(t0, FenceJson) THEN Substring(t0, 7, Len(t0)) ELSE t0
        t2 == IF EndsWith(t1, Fence) THEN Substring(t1, 0, Len(t1) - 3) ELSE t1
    IN  Trim(t2)

\* Bounds of the fence-stripping inputs.
MaxWs == 1
MaxStripRuns == 2

WsRuns == SeqsUpTo({" ", "\n"}, MaxWs)

\* JSON bodies a finalize response may carry; the empty body is an empty
\* fenced block.
SceneJson == <<"[", "{", "\"", "s", "c", "e", "n", "e", "\"", ":", "1", "}", "]">>
FenceBodies == {SceneJson, <<"[", "1", "]">>, <<"{", "}">>, <<"[", " ", "]">>, <<>>}

FencePartsSet ==
    [lead : WsRuns, open : {FenceJson, Fence, <<>>}, ws1 : WsRuns,
     body : FenceBodies, ws2 : WsRuns, close : {Fence, <<>>}, trail : WsRuns]

FenceText(p) == p.lead \o p.open \o p.ws1 \o p.body \o p.ws2 \o p.close \o p.trail

NoFenceParts ==
    [lead |-> <<>>, open |-> <<>>, ws1 |-> <<>>, body |-> <<>>, ws2 |-> <<>>,
     close |-> <<>>, trail |-> <<>>]

FenceIdle == fenceParts = NoFenceParts /\ fenceResponse = <<>> /\ fenceRuns = <<>>

FenceInit ==
    /\ fenceParts \in FencePartsSet
    /\ fenceResponse = FenceText(fenceParts)
    /\ fenceRuns = <<>>

\* One run of lines 119-127, on response.text the first time and on the
\* previous result afterwards.
StripRun ==
    /\ Len(fenceRuns) < MaxStripRuns
    /\ LET input == IF fenceRuns = <<>> THEN fenceResponse
                    ELSE fenceRuns[Len(fenceRuns)]
       IN  fenceRuns' = Append(fenceRuns, StripFence(input))
    /\ UNCHANGED <<fenceParts, fenceResponse, topicsVars, modalVars, orchVars, flow, uiVars>>

(***************************************************************************)
(* getTrendingTopics: parsing of response.text.                            *)
(***************************************************************************)
\* A variant that drops the empty topics (.filter(Boolean)).
ParseTopicsDropEmpty(text) ==
    LET topicsText == Trim(text)
        pieces == SplitChar(topicsText, ",")
        topics == [k \in 1..Len(pieces) |-> ToLowerCase(Trim(pieces[k]))]
    IN  IF topicsText = <<>> THEN <<>>
        ELSE SelectSeq(topics, LAMBDA topic : topic # <<>>)

ParseTopics(text) ==
    LET topicsText == Trim(text)
        pieces == SplitChar(topicsText, ",")
    IN  IF topicsText = <<>> THEN <<>>
        ELSE [k \in 1..Len(pieces) |-> ToLowerCase(Trim(pieces[k]))]

MaxTopicsLen == 4

TopicsExample ==
    <<"C", "a", "t", "s", ",", " ", "D", "o", "g", "s", " ", ",", " ", " ",
      "B", "i", "r", "d", "s">>

TopicsResponses == SeqsUpTo({"C", "a", ",", " "}, MaxTopicsLen) \cup {TopicsExample}

TopicsIdle == topicsResponse = <<>> /\ topicsResult = <<>> /\ topicsDone = FALSE

TopicsInit ==
    /\ topicsResponse \in TopicsResponses
    /\ topicsResult = <<>>
    /\ topicsDone = FALSE

TopicsParse ==
    /\ ~topicsDone
    /\ topicsResult' = ParseTopics(topicsResponse)
    /\ topicsDone' = TRUE
    /\ UNCHANGED <<topicsResponse, fenceVars, modalVars, orchVars, flow, uiVars>>

(***************************************************************************)
(* ScriptGeneratorModal: the two useMemo computations that split a draft   *)
(* into the narration suggestions and the scene table (lines 40-64).       *)
(***************************************************************************)
\* null (no character is called NULL, so no string equals it).
Null == <<"NULL">>

Includes(s, p) == \E k \in 1..(Len(s) - Len(p) + 1) : SubSeq(s, k, k + Len(p) - 1) = p

\* s.split(sep) for a non-empty separator string.
RECURSIVE SplitSeq(_, _)
SplitSeq(s, sep) ==
    IF ~Includes(s, sep)
    THEN <<s>>
    ELSE LET k == CHOOSE i \in 1..(Len(s) - Len(sep) + 1) :
                      /\ SubSeq(s, i, i + Len(sep) - 1) = sep
                      /\ \A j \in 1..(i - 1) : SubSeq(s, j, j + Len(sep) - 1) # sep
         IN  <<SubSeq(s, 1, k - 1)>> \o SplitSeq(SubSeq(s, k + Len(sep), Len(s)), sep)

\* parts.join(sep)
RECURSIVE Join(_, _)
Join(parts, sep) ==
    IF parts = <<>> THEN <<>>
    ELSE IF Len(parts) = 1 THEN parts[1]
    ELSE parts[1] \o sep \o Join(Tail(parts), sep)

Separator == <<"\n", "-", "-", "-", "\n">>
SuggestionsHeader == <<"s", "u", "g", "g", "e", "s", "t", "e", "d", " ", "n", "a", "r", "r",
        "a", "t", "i", "o", "n", " ", "s", "t", "y", "l", "e", "s">>

\* A variant that trims a draft it does not split.
SplitScriptTrimsWhole(s) ==
    LET parts == SplitSeq(s, Separator)
    IN  IF s = Null \/ s = <<>>
        THEN [narrationSuggestions |-> Null, scriptTable |-> Null]
        ELSE IF Len(parts) > 1 /\ Includes(ToLowerCase(parts[1]), SuggestionsHeader)
        THEN [narrationSuggestions |-> parts[1],
              scriptTable |-> Trim(Join(Tail(parts), Separator))]
        ELSE [narrationSuggestions |-> Null, scriptTable |-> Trim(s)]

\* A variant that takes any text before a separator for suggestions.
SplitScriptNoHeaderTest(s) ==
    LET parts == SplitSeq(s, Separator)
    IN  IF s = Null \/ s = <<>>
        THEN [narrationSuggestions |-> Null, scriptTable |-> Null]
        ELSE IF Len(parts) > 1
        THEN [narrationSuggestions |-> parts[1],
              scriptTable |-> Trim(Join(Tail(parts), Separator))]
        ELSE [narrationSuggestions |-> Null, scriptTable |-> s]

\* Lines 40-47: { narrationSuggestions, scriptTable }.
SplitScript(s) ==
    LET parts == SplitSeq(s, Separator)
    IN  IF s = Null \/ s = <<>>
        THEN [narrationSuggestions |-> Null, scriptTable |-> Null]
        ELSE IF Len(parts) > 1 /\ Includes(ToLowerCase(parts[1]), SuggestionsHeader)
        THEN [narrationSuggestions |-> parts[1],
              scriptTable |-> Trim(Join(Tail(parts), Separator))]
        ELSE [narrationSuggestions |-> Null, scriptTable |-> s]

Digits == {"0", "1", "2", "3", "4", "5", "6", "7", "8", "9"}

\* The length of the longest run of characters of set that starts at from.
RECURSIVE RunLen(_, _, _)
RunLen(line, from, set) ==
    IF from <= Len(line) /\ line[from] \in set
    THEN 1 + RunLen(line, from + 1, set)
    ELSE 0

\* /^\d+\.\s*\*\*/ : the position after the match, 0 when line does not match.
SuggestionPrefix(line) ==
    LET d == RunLen(line, 1, Digits)
        w == RunLen(line, d + 2, WhiteSpace)
        star == d + 2 + w
    IN  IF /\ d >= 1
           /\ d + 1 <= Len(line) /\ line[d + 1] = "."
           /\ star + 1 <= Len(line) /\ line[star] = "*" /\ line[star + 1] = "*"
        THEN star + 2
        ELSE 0

\* (?:\s*\*(.*)\*)?$ tried at position q: whether the group takes part.
JustificationAt(line, q) ==
    LET star == q + RunLen(line, q, WhiteSpace)
    IN  star < Len(line) /\ line[star] = "*" /\ line[Len(line)] = "*"

OrElse(s, default) == IF s = <<>> THEN default ELSE s

\* match() returning null.
NoMatch == [name |-> Null, description |-> Null, justification |-> Null]

UnnamedStyle == <<"U", "n", "n", "a", "m", "e", "d", " ", "S", "t", "y", "l", "e">>

\* Lines 55-62: line.match(/^\d+\.\s*\*\*(.*?):\*\*(.*?)(?:\s*\*(.*)\*)?$/)
\* and the suggestion made of its groups; NoMatch when the line does not match.
\* The lazy groups take the shortest text that lets the rest match.
MatchSuggestion(line) ==
    LET p == SuggestionPrefix(line)
        colons == {c \in p..(Len(line) - 2) : SubSeq(line, c, c + 2) = <<":", "*", "*">>}
        c == CHOOSE x \in colons : \A y \in colons : x <= y
        stops == {q \in (c + 3)..(Len(line) + 1) :
                      JustificationAt(line, q) \/ q = Len(line) + 1}
        q == CHOOSE x \in stops : \A y \in stops : x <= y
        star == q + RunLen(line, q, WhiteSpace)
    IN  IF p = 0 \/ colons = {} THEN NoMatch
        ELSE [name |-> OrElse(Trim(SubSeq(line, p, c - 1)), UnnamedStyle),
              description |-> Trim(SubSeq(line, c + 3, q - 1)),
              justification |->
                  IF JustificationAt(line, q)
                  THEN Trim(SubSeq(line, star + 1, Len(line) - 1))
                  ELSE <<>>]

\* Lines 49-64: parsedSuggestions.
ParseSuggestions(narration) ==
    LET lines == SplitChar(Trim(narration), "\n")
        suggestionLines == SelectSeq(lines, LAMBDA line : SuggestionPrefix(line) # 0)
        matches == [k \in 1..Len(suggestionLines) |-> MatchSuggestion(suggestionLines[k])]
    IN  IF narration = Null \/ narration = <<>> THEN <<>>
        ELSE SelectSeq(matches, LAMBDA m : m # NoMatch)

\* The draft of the narration-suggestion example, line by line.
CalmLine == <<"1", ".", " ", "*", "*", "C", "a", "l", "m", ":", "*", "*", " ", "s",
        "o", "f", "t", " ", "t", "o", "n", "e", " ", "*", "b", "e", "c", "a",
        "u", "s", "e", " ", "i", "t", " ", "f", "i", "t", "s", "*">>
TableText == <<"|", "T", "i", "m", "e", "s", "t", "a", "m", "p", "|", "A", "c", "t",
        "i", "o", "n", "|", "\n", "|", "-", "|", "-", "|", "\n", "|", "0",
        ":", "0", "0", "|", "O", "p", "e", "n", "|">>
ExampleDraft == CalmLine \o Separator \o TableText

\* Bound: the number of lines of a draft's leading section.
MaxLeadLines == 2

HeaderLines ==
    {<<"S", "u", "g", "g", "e", "s", "t", "e", "d", " ", "N", "a", "r", "r",
        "a", "t", "i", "o", "n", " ", "S", "t", "y", "l", "e", "s">>,
     <<"#", "#", " ", "S", "U", "G", "G", "E", "S", "T", "E", "D", " ", "N",
        "A", "R", "R", "A", "T", "I", "O", "N", " ", "S", "T", "Y", "L", "E",
        "S", ":">>}
\* A line that consists only of the separator's dashes.
DashLine == <<"-", "-", "-">>

LeadLines ==
    HeaderLines \cup {SuggestionsHeader} \cup
    {CalmLine, DashLine,
     <<"2", ".", " ", "*", "*", "B", "o", "l", "d", ":", "*", "*", " ", "l",
        "o", "u", "d">>,
     <<"3", ".", "*", "*", ":", "*", "*", " ", "*", "x", "*">>}

\* Drafts: a leading section of lines, a separator line or none, a table.
LeadSections == UNION {[1..k -> LeadLines] : k \in 1..MaxLeadLines}
Dividers == {Separator, <<"\n">>, <<"\n", "-", "-", "-", " ", "\n">>}
Tables == {TableText, <<"|", "S", "c", "e", "n", "e", "|", "\n", "-", "-", "-", "\n", "|",
        "a", "|", "\n">>}

DraftText(lead, divider, table) == Join(lead, <<"\n">>) \o divider \o table

ModalIdle ==
    /\ script = Null
    /\ narrationSuggestions = Null
    /\ scriptTable = Null
    /\ parsedSuggestions = <<>>
    /\ rendered = FALSE

ModalInit ==
    /\ script \in {DraftText(lead, divider, table) :
                       lead \in LeadSections, divider \in Dividers, table \in Tables}
    /\ narrationSuggestions = Null
    /\ scriptTable = Null
    /\ parsedSuggestions = <<>>
    /\ rendered = FALSE

\* A render of the modal with the script prop: both memos are computed.
RenderScript ==
    /\ ~rendered
    /\ narrationSuggestions' = SplitScript(script).narrationSuggestions
    /\ scriptTable' = SplitScript(script).scriptTable
    /\ parsedSuggestions' = ParseSuggestions(SplitScript(script).narrationSuggestions)
    /\ rendered' = TRUE
    /\ UNCHANGED <<script, fenceVars, topicsVars, orchVars, flow, uiVars>>

(***************************************************************************)
(* ScriptGeneratorModal: renderScriptTable (lines 93-137), the view of the *)
(* scene table.                                                            *)
(***************************************************************************)
\* What renderScriptTable returns: the <pre> of a text, or a table of a
\* header row and body rows of cells.
NoView == [kind |-> "none", text |-> <<>>, header |-> <<>>, rows |-> <<>>]
Pre(text) == [kind |-> "pre", text |-> text, header |-> <<>>, rows |-> <<>>]
Table(header, rows) == [kind |-> "table", text |-> <<>>, header |-> header, rows |-> rows]

Pipe == "|"
Timestamp == <<"t", "i", "m", "e", "s", "t", "a", "m", "p">>

\* Line 96: line.includes('|') && line.toLowerCase().includes('timestamp')
IsHeaderLine(line) == Includes(line, <<Pipe>>) /\ Includes(ToLowerCase(line), Timestamp)

\* line.split('|').map(c => c.trim())
TrimmedCells(line) ==
    LET pieces == SplitChar(line, Pipe)
    IN  [k \in 1..Len(pieces) |-> Trim(pieces[k])]

\* Lines 103-108: the cells of a data row, without the empty first and last
\* cell of a row written | cell | cell |.
RowCells(line) ==
    LET cells == TrimmedCells(line)
    IN  IF cells[1] = <<>> /\ cells[Len(cells)] = <<>>
        THEN SubSeq(cells, 2, Len(cells) - 1)
        ELSE cells

\* A variant that takes the row after the header for a data row.
renderScriptTableNoSkip(md) ==
    LET lines == SplitChar(Trim(md), "\n")
        headers == {k \in 1..Len(lines) : IsHeaderLine(lines[k])}
        headerLine == CHOOSE k \in headers : \A j \in headers : k <= j
        header == SelectSeq(TrimmedCells(lines[headerLine]), LAMBDA h : h # <<>>)
        dataRows == SubSeq(lines, headerLine + 1, Len(lines))
        rows == [k \in 1..Len(dataRows) |-> RowCells(dataRows[k])]
    IN  IF headers = {} THEN Pre(md)
        ELSE Table(header, SelectSeq(rows, LAMBDA row : Len(row) > 1))

\* Lines 93-137.  headerLine is the position of the first header line
\* counted from 1, so lines.slice(headerIndex + 2) starts two lines after it.
renderScriptTable(md) ==
    LET lines == SplitChar(Trim(md), "\n")
        headers == {k \in 1..Len(lines) : IsHeaderLine(lines[k])}
        headerLine == CHOOSE k \in headers : \A j \in headers : k <= j
        header == SelectSeq(TrimmedCells(lines[headerLine]), LAMBDA h : h # <<>>)
        dataRows == SubSeq(lines, headerLine + 2, Len(lines))
        rows == [k \in 1..Len(dataRows) |-> RowCells(dataRows[k])]
    IN  IF headers = {} THEN Pre(md)
        ELSE Table(header, SelectSeq(rows, LAMBDA row : Len(row) > 1))

\* Bound: the number of lines of a scene table text.
MaxTableLines == 3

\* Lines of scene table texts: header rows, a separator row, data rows, a
\* row of one cell, prose and an empty line.
HeaderRow == <<"|", "T", "i", "m", "e", "s", "t", "a", "m", "p", "|", "A", "c", "t",
        "i", "o", "n", "|">>
ExampleRow == <<"|", " ", "0", ":", "0", "0", " ", "|", " ", "O", "p", "e", "n", " ", "|">>
TableLines ==
    {HeaderRow,
     <<"T", "I", "M", "E", "S", "T", "A", "M", "P", " ", "|", " ", "S", "c",
        "e", "n", "e">>,
     <<"|", "-", "|", "-", "|">>,
     ExampleRow,
     <<"|", "a", "|">>,
     <<"N", "o", " ", "t", "i", "m", "e", "s", "t", "a", "m", "p">>,
     <<>>,
     <<"0", ":", "0", "5", "|", "C", "l", "o", "s", "e">>}

TableTexts ==
    {Join(lines, <<"\n">>) : lines \in UNION {[1..k -> TableLines] : k \in 1..MaxTableLines}}

TableIdle == markdown = <<>> /\ tableView = NoView

TableInit == markdown \in TableTexts /\ tableView = NoView

\* Lines 307-320: the modal shows renderScriptTable(scriptTable) when the
\* scene table text is not empty.
RenderTable ==
    /\ tableView = NoView
    /\ markdown # <<>>
    /\ tableView' = renderScriptTable(markdown)
    /\ UNCHANGED <<markdown, fenceVars, topicsVars, modalVars, orchVars, flow, panelVars,
                   jsonVars>>

(***************************************************************************)
(* The generation orchestrator (src/services/geminiService.ts).  One call  *)
(* is followed from its invocation to its return or throw; an await of the *)
(* network is a step of its own, settled by the endpoint's answer.         *)
(***************************************************************************)
Operations ==
    {"ideas", "topics", "chat", "draft", "revise", "finalize", "seo", "video"}

\* The closed enumerations of '../types' (two values of each).
Genres == {"Comedy", "Horror"}
Durations == {"Shorts30", "Shorts60"}

\* Error messages.
ConfigErrorMsg == "API_KEY environment variable is not set."
IdeasFailMsg == "Failed to generate ideas from Gemini API."
DraftFailMsg == "Failed to generate initial script from Gemini API."
ReviseFailMsg == "Failed to regenerate script from Gemini API."
FinalizeFailMsg == "Failed to finalize script as JSON from Gemini API."
TopicsFailMsg == "Failed to get trending topics from Gemini API."
SeoFailMsg == "Failed to generate SEO content from Gemini API."
NoLinkMsg == "Video generation succeeded but no download link was found."
NoKeyDownloadMsg == "API_KEY environment variable is not set for downloading video."
UnknownVideoMsg == "Failed to generate video from Veo API due to an unknown error."
NoError == ""

DownloadFailMsg(statusText) ==
    IF statusText = "Forbidden" THEN "Failed to download video: Forbidden"
    ELSE "Failed to download video: Not Found"
StatusTexts == {"Forbidden", "Not Found"}

\* What a rejected network call throws: an Error with a message of the
\* transport's, or a value that is no Error.
Failures ==
    {[isError |-> TRUE, message |-> "Network error"],
     [isError |-> TRUE, message |-> "Quota exceeded"],
     [isError |-> FALSE, message |-> ""]}

\* Values returned by the operations.
NoValue == [kind |-> "none", value |-> <<>>]
Value(kind, v) == [kind |-> kind, value |-> v]

\* The job handle of generateVideos / getVideosOperation: its done flag and
\* whether response.generatedVideos[0].video.uri is there.
NoOperation == [done |-> FALSE, uri |-> FALSE]
Statuses ==
    {[done |-> FALSE, uri |-> FALSE], [done |-> TRUE, uri |-> TRUE],
     [done |-> TRUE, uri |-> FALSE]}

\* Bounds: the counters of network requests and of status polls stop
\* counting there (the loop itself goes on).
MaxRequests == 3
MaxPolls == 3

Count(n, max) == IF n < max THEN n + 1 ELSE n

\* JSON.parse on the texts of the model: a value is a number written with
\* the digit 1, the empty object or an array of values, with JSON's
\* insignificant whitespace.
RECURSIVE IsJsonValue(_)
RECURSIVE IsJsonElements(_)
IsJsonValue(s) ==
    LET t == Trim(s)
    IN  \/ t # <<>> /\ \A i \in 1..Len(t) : t[i] = "1"
        \/ /\ Len(t) >= 2 /\ t[1] = "{" /\ t[Len(t)] = "}"
           /\ Trim(SubSeq(t, 2, Len(t) - 1)) = <<>>
        \/ /\ Len(t) >= 2 /\ t[1] = "[" /\ t[Len(t)] = "]"
           /\ \/ Trim(SubSeq(t, 2, Len(t) - 1)) = <<>>
              \/ IsJsonElements(SubSeq(t, 2, Len(t) - 1))
IsJsonElements(u) ==
    \/ IsJsonValue(u)
    \/ \E k \in 1..Len(u) :
           /\ u[k] = ","
           /\ IsJsonValue(SubSeq(u, 1, k - 1))
           /\ IsJsonElements(SubSeq(u, k + 1, Len(u)))

\* The value JSON.parse returns, as the text without insignificant whitespace.
JsonParse(s) == SelectSeq(s, LAMBDA c : ~IsSpace(c))

\* response.text of the calls whose text is processed.
IdeaTexts == {<<"1", ".", " ", "a">>}
FinalizeTexts ==
    {FenceJson \o <<"\n">> \o SceneJson \o <<"\n">> \o Fence,
     FenceJson \o <<"\n">> \o Fence,
     Fence \o <<"[", "1", "]">> \o Fence,
     <<"[", "1", "]">>}
TopicTexts == {TopicsExample, <<" ">>, <<"a", ",", "C">>}
SeoTexts ==
    {<<"{", "}">>, <<" ", "{", "}", "\n">>, <<"[", "1", ",", "{", "}", "]">>,
     <<"{">>, <<>>, <<"o", "k">>}

\* A variant that builds the client without looking at the key.
getGenAIClientUnchecked == TRUE

\* Lines 6-11: TRUE when a client is returned, FALSE when the configuration
\* error is thrown.
getGenAIClient == apiKey

NoCall == pc \in {"idle", "returned", "thrown"}

\* The entry of operation o: its local state.
Begin(o, to, sent, message, why) ==
    /\ op' = o
    /\ pc' = to
    /\ keyAtCall' = apiKey
    /\ requests' = sent
    /\ thrown' = message
    /\ cause' = why
    /\ returned' = NoValue
    /\ operation' = NoOperation
    /\ polls' = 0
    /\ fetches' = 0
    /\ responseOk' = FALSE

\* Entry of an operation that builds a client before its try block and then
\* awaits one request.
BeginWithClient(o) ==
    IF getGenAIClient
    THEN Begin(o, "await", 1, NoError, "none")
    ELSE Begin(o, "thrown", 0, ConfigErrorMsg, "config")

Throw(message, why) ==
    /\ pc' = "thrown"
    /\ thrown' = message
    /\ cause' = why
    /\ returned' = NoValue

Return(v) ==
    /\ pc' = "returned"
    /\ returned' = v
    /\ UNCHANGED <<thrown, cause>>

Awaiting(o) == op = o /\ pc = "await"

\* process.env.API_KEY is read at every call (lines 7 and 171): it may be
\* set or unset between two reads.
SetApiKey ==
    /\ apiKey' = ~apiKey
    /\ UNCHANGED <<chat, args, callVars, fenceVars, topicsVars, modalVars, flow, uiVars>>

\* A variant that builds the client inside the try block, whose catch turns
\* the configuration error into the failure of the call.
generateShortsIdeasClientInTry ==
    /\ NoCall
    /\ \E g \in Genres, d \in Durations : args' = [genre |-> g, duration |-> d]
    /\ IF getGenAIClient
       THEN Begin("ideas", "await", 1, NoError, "none")
       ELSE Begin("ideas", "thrown", 0, IdeasFailMsg, "config")
    /\ UNCHANGED <<apiKey, chat, fenceVars, topicsVars, modalVars, flow, uiVars>>

\* Lines 14-25: generateShortsIdeas up to its await.
generateShortsIdeas ==
    /\ NoCall
    /\ \E g \in Genres, d \in Durations : args' = [genre |-> g, duration |-> d]
    /\ BeginWithClient("ideas")
    /\ UNCHANGED <<apiKey, chat, fenceVars, topicsVars, modalVars, flow, uiVars>>

\* A variant that rethrows the message of the error it caught.
generateShortsIdeasSettleRethrows ==
    /\ Awaiting("ideas")
    /\ \/ \E text \in IdeaTexts : Return(Value("text", text))
       \/ \E f \in Failures : Throw(f.message, "transport")
    /\ UNCHANGED <<apiKey, chat, args, op, keyAtCall, requests, videoVars,
                   fenceVars, topicsVars, modalVars, flow, uiVars>>

\* Lines 27-31.
generateShortsIdeasSettle ==
    /\ Awaiting("ideas")
    /\ \/ \E text \in IdeaTexts : Return(Value("text", text))
       \/ \E f \in Failures : Throw(IdeasFailMsg, "transport")
    /\ UNCHANGED <<apiKey, chat, args, op, keyAtCall, requests, videoVars,
                   fenceVars, topicsVars, modalVars, flow, uiVars>>

\* Lines 34-42: startScriptChat; no request is sent.
startScriptChat ==
    /\ NoCall
    /\ IF getGenAIClient
       THEN /\ Begin("chat", "returned", 0, NoError, "none")
            /\ chat' = TRUE
       ELSE /\ Begin("chat", "thrown", 0, ConfigErrorMsg, "config")
            /\ chat' = chat
    /\ UNCHANGED <<apiKey, args, fenceVars, topicsVars, modalVars, flow, uiVars>>

\* Lines 44-66: generateInitialScriptStream on a chat that was opened.
generateInitialScriptStream ==
    /\ NoCall
    /\ chat
    /\ Begin("draft", "await", 1, NoError, "none")
    /\ UNCHANGED <<apiKey, chat, args, fenceVars, topicsVars, modalVars, flow, uiVars>>

\* Lines 67-71.
generateInitialScriptStreamSettle ==
    /\ Awaiting("draft")
    /\ \/ Return(Value("stream", <<>>))
       \/ \E f \in Failures : Throw(DraftFailMsg, "transport")
    /\ UNCHANGED <<apiKey, chat, args, op, keyAtCall, requests, videoVars,
                   fenceVars, topicsVars, modalVars, flow, uiVars>>

\* Lines 74-93: regenerateScriptStream on a chat that was opened.
regenerateScriptStream ==
    /\ NoCall
    /\ chat
    /\ Begin("revise", "await", 1, NoError, "none")
    /\ UNCHANGED <<apiKey, chat, args, fenceVars, topicsVars, modalVars, flow, uiVars>>

\* Lines 94-98.
regenerateScriptStreamSettle ==
    /\ Awaiting("revise")
    /\ \/ Return(Value("stream", <<>>))
       \/ \E f \in Failures : Throw(ReviseFailMsg, "transport")
    /\ UNCHANGED <<apiKey, chat, args, op, keyAtCall, requests, videoVars,
                   fenceVars, topicsVars, modalVars, flow, uiVars>>

\* Lines 101-116: finalizeScriptAsJson up to its await.
finalizeScriptAsJson ==
    /\ NoCall
    /\ BeginWithClient("finalize")
    /\ UNCHANGED <<apiKey, chat, args, fenceVars, topicsVars, modalVars, flow, uiVars>>

\* Lines 118-132.
finalizeScriptAsJsonSettle ==
    /\ Awaiting("finalize")
    /\ \/ \E text \in FinalizeTexts : Return(Value("json", StripFence(text)))
       \/ \E f \in Failures : Throw(FinalizeFailMsg, "transport")
    /\ UNCHANGED <<apiKey, chat, args, op, keyAtCall, requests, videoVars,
                   fenceVars, topicsVars, modalVars, flow, uiVars>>

\* Lines 192-203: getTrendingTopics up to its await.
getTrendingTopics ==
    /\ NoCall
    /\ BeginWithClient("topics")
    /\ UNCHANGED <<apiKey, chat, args, fenceVars, topicsVars, modalVars, flow, uiVars>>

\* Lines 204-210.
getTrendingTopicsSettle ==
    /\ Awaiting("topics")
    /\ \/ \E text \in TopicTexts : Return(Value("topics", ParseTopics(text)))
       \/ \E f \in Failures : Throw(TopicsFailMsg, "transport")
    /\ UNCHANGED <<apiKey, chat, args, op, keyAtCall, requests, videoVars,
                   fenceVars, topicsVars, modalVars, flow, uiVars>>

\* Lines 213-245: generateSeoContent up to its await.
generateSeoContent ==
    /\ NoCall
    /\ BeginWithClient("seo")
    /\ UNCHANGED <<apiKey, chat, args, fenceVars, topicsVars, modalVars, flow, uiVars>>

\* A variant whose JSON.parse stands after the try block: its SyntaxError
\* leaves the function as it is.
generateSeoContentSettleParseOutside ==
    /\ Awaiting("seo")
    /\ \/ \E text \in SeoTexts :
              IF IsJsonValue(Trim(text))
              THEN Return(Value("seo", JsonParse(Trim(text))))
              ELSE Throw("Unexpected token in JSON", "parse")
       \/ \E f \in Failures : Throw(SeoFailMsg, "transport")
    /\ UNCHANGED <<apiKey, chat, args, op, keyAtCall, requests, videoVars,
                   fenceVars, topicsVars, modalVars, flow, uiVars>>

\* Lines 247-253: the SyntaxError of JSON.parse is thrown inside the try
\* block and caught as a failure of the call is.
generateSeoContentSettle ==
    /\ Awaiting("seo")
    /\ \/ \E text \in SeoTexts :
              IF IsJsonValue(Trim(text))
              THEN Return(Value("seo", JsonParse(Trim(text))))
              ELSE Throw(SeoFailMsg, "parse")
       \/ \E f \in Failures : Throw(SeoFailMsg, "transport")
    /\ UNCHANGED <<apiKey, chat, args, op, keyAtCall, requests, videoVars,
                   fenceVars, topicsVars, modalVars, flow, uiVars>>

\* Lines 183-189: the catch block of generateVideoForIdea.
VideoCatch(error, why) ==
    IF error.isError THEN Throw(error.message, why)
    ELSE Throw(UnknownVideoMsg, why)

\* Lines 135-158: generateVideoForIdea up to the await of generateVideos.
generateVideoForIdea ==
    /\ NoCall
    /\ IF getGenAIClient
       THEN Begin("video", "submit", 1, NoError, "none")
       ELSE Begin("video", "thrown", 0, ConfigErrorMsg, "config")
    /\ UNCHANGED <<apiKey, chat, args, fenceVars, topicsVars, modalVars, flow, uiVars>>

\* Line 150: generateVideos settles.
VideoSubmitSettle ==
    /\ op = "video" /\ pc = "submit"
    /\ \/ \E status \in Statuses :
              /\ operation' = status
              /\ pc' = "loop"
              /\ UNCHANGED <<thrown, cause, returned>>
       \/ \E f \in Failures : VideoCatch(f, "transport") /\ UNCHANGED operation
    /\ UNCHANGED <<apiKey, chat, args, op, keyAtCall, requests, polls, fetches,
                   responseOk, fenceVars, topicsVars, modalVars, flow, uiVars>>

\* A variant of the loop that gives up after two polls.
VideoPollWithLimit ==
    /\ op = "video" /\ pc = "loop"
    /\ ~operation.done
    /\ IF polls >= 2
       THEN /\ Throw("Video generation timed out.", "timeout")
            /\ UNCHANGED <<polls, requests>>
       ELSE /\ pc' = "polling"
            /\ polls' = Count(polls, MaxPolls)
            /\ requests' = Count(requests, MaxRequests)
            /\ UNCHANGED <<thrown, cause, returned>>
    /\ UNCHANGED <<apiKey, chat, args, op, keyAtCall, operation, fetches,
                   responseOk, fenceVars, topicsVars, modalVars, flow, uiVars>>

\* Lines 160-162: the loop test finds the job not done; after the timer the
\* status is asked for.
VideoPoll ==
    /\ op = "video" /\ pc = "loop"
    /\ ~operation.done
    /\ pc' = "polling"
    /\ polls' = Count(polls, MaxPolls)
    /\ requests' = Count(requests, MaxRequests)
    /\ UNCHANGED <<apiKey, chat, args, op, keyAtCall, thrown, cause, returned,
                   operation, fetches, responseOk, fenceVars, topicsVars, modalVars, flow, uiVars>>

\* Line 162: getVideosOperation settles.
VideoPollSettle ==
    /\ op = "video" /\ pc = "polling"
    /\ \/ \E status \in Statuses :
              /\ operation' = status
              /\ pc' = "loop"
              /\ UNCHANGED <<thrown, cause, returned>>
       \/ \E f \in Failures : VideoCatch(f, "transport") /\ UNCHANGED operation
    /\ UNCHANGED <<apiKey, chat, args, op, keyAtCall, requests, polls, fetches,
                   responseOk, fenceVars, topicsVars, modalVars, flow, uiVars>>

\* A variant that fetches without looking at the download link.
VideoDownloadNoLinkCheck ==
    /\ op = "video" /\ pc = "loop"
    /\ operation.done
    /\ IF ~apiKey
       THEN Throw(NoKeyDownloadMsg, "nokey") /\ UNCHANGED <<fetches, requests>>
       ELSE /\ pc' = "fetching"
            /\ fetches' = fetches + 1
            /\ requests' = Count(requests, MaxRequests)
            /\ UNCHANGED <<thrown, cause, returned>>
    /\ UNCHANGED <<apiKey, chat, args, op, keyAtCall, operation, polls,
                   responseOk, fenceVars, topicsVars, modalVars, flow, uiVars>>

\* Lines 160 and 165-175: the loop test finds the job done; the link and the
\* key are checked and the download is fetched.
VideoDownload ==
    /\ op = "video" /\ pc = "loop"
    /\ operation.done
    /\ IF ~operation.uri
       THEN Throw(NoLinkMsg, "nolink") /\ UNCHANGED <<fetches, requests>>
       ELSE IF ~apiKey
       THEN Throw(NoKeyDownloadMsg, "nokey") /\ UNCHANGED <<fetches, requests>>
       ELSE /\ pc' = "fetching"
            /\ fetches' = fetches + 1
            /\ requests' = Count(requests, MaxRequests)
            /\ UNCHANGED <<thrown, cause, returned>>
    /\ UNCHANGED <<apiKey, chat, args, op, keyAtCall, operation, polls,
                   responseOk, fenceVars, topicsVars, modalVars, flow, uiVars>>

\* Lines 175-178: fetch settles.
VideoFetchSettle ==
    /\ op = "video" /\ pc = "fetching"
    /\ \/ /\ pc' = "blob"
          /\ responseOk' = TRUE
          /\ UNCHANGED <<thrown, cause, returned>>
       \/ \E statusText \in StatusTexts :
              /\ Throw(DownloadFailMsg(statusText), "download")
              /\ UNCHANGED responseOk
       \/ \E f \in Failures : VideoCatch(f, "transport") /\ UNCHANGED responseOk
    /\ UNCHANGED <<apiKey, chat, args, op, keyAtCall, requests, operation, polls,
                   fetches, fenceVars, topicsVars, modalVars, flow, uiVars>>

\* Lines 180-181: the body is read and the object URL returned.
VideoBlobSettle ==
    /\ op = "video" /\ pc = "blob"
    /\ \/ Return(Value("url", <<>>))
       \/ \E f \in Failures : VideoCatch(f, "transport")
    /\ UNCHANGED <<apiKey, chat, args, op, keyAtCall, requests, videoVars,
                   fenceVars, topicsVars, modalVars, flow, uiVars>>

OrchIdle ==
    /\ apiKey = TRUE
    /\ chat = FALSE
    /\ args = [genre |-> "Comedy", duration |-> "Shorts30"]
    /\ op = "none"
    /\ pc = "idle"
    /\ keyAtCall = TRUE
    /\ requests = 0
    /\ thrown = NoError
    /\ cause = "none"
    /\ returned = NoValue
    /\ operation = NoOperation
    /\ polls = 0
    /\ fetches = 0
    /\ responseOk = FALSE

OrchInit ==
    /\ apiKey \in BOOLEAN
    /\ chat = FALSE
    /\ args = [genre |-> "Comedy", duration |-> "Shorts30"]
    /\ op = "none"
    /\ pc = "idle"
    /\ keyAtCall = TRUE
    /\ requests = 0
    /\ thrown = NoError
    /\ cause = "none"
    /\ returned = NoValue
    /\ operation = NoOperation
    /\ polls = 0
    /\ fetches = 0
    /\ responseOk = FALSE

(***************************************************************************)
(* The workflow of one idea around the modal.  The modal's buttons are     *)
(* guarded as ScriptGeneratorModal.tsx guards them; the handlers behind    *)
(* its props (onGenerate, onFinalize, the SEO trigger) follow the          *)
(* workflow state machine of the specification.                            *)
(***************************************************************************)
Ideas == {"idea1", "idea2"}

\* JavaScript truthiness of a string | null.
Truthy(s) == s # Null /\ s # <<>>

NoFlow ==
    [script |-> Null, finalJsonScript |-> Null, seoContent |-> Null,
     pending |-> "none", finalized |-> FALSE, seoSent |-> FALSE,
     seoRejected |-> FALSE]

\* The isLoading prop.
IsLoading(w) == w.pending # "none"

\* Lines 233 and 254: the Generate Script button is rendered.
CanGenerate(w) == ~Truthy(w.script) /\ ~IsLoading(w)

\* A variant of the Regenerate button that ignores isLoading.
CanRegenerateWhileLoading(w) == Truthy(w.script) /\ ~Truthy(w.finalJsonScript)

\* Lines 326 and 367: the revision panel is rendered and its Regenerate
\* button is not disabled by isLoading.
CanRegenerate(w) == Truthy(w.script) /\ ~Truthy(w.finalJsonScript) /\ ~IsLoading(w)

\* A variant of the Finalize button that stays after the script is finalized.
CanFinalizeAfterFinal(w) == Truthy(w.script) /\ ~IsLoading(w)

\* Lines 397 and 427-429: the Finalize button is rendered and enabled.
CanFinalize(w) == Truthy(w.script) /\ ~Truthy(w.finalJsonScript) /\ ~IsLoading(w)

\* A variant that asks for a draft where a finalized script is required.
CanGenerateSeoOnDraft(w) == Truthy(w.script) /\ ~IsLoading(w) /\ w.seoContent = Null

\* Finalized allows generate SEO: a finalized script exists, no call is
\* outstanding and no SEO content was produced yet.
CanGenerateSeo(w) ==
    Truthy(w.finalJsonScript) /\ ~IsLoading(w) /\ w.seoContent = Null

DraftTexts == {CalmLine \o Separator \o TableText, TableText}

FlowIdle == flow = [i \in Ideas |-> NoFlow]
FlowInit == flow = [i \in Ideas |-> NoFlow]

Keep == UNCHANGED <<fenceVars, topicsVars, modalVars, orchVars, uiVars>>

\* onGenerate(duration, noNarration, language): Idle -> Drafting.
OnGenerate(i) ==
    /\ CanGenerate(flow[i])
    /\ flow' = [flow EXCEPT ![i].pending = "draft"]
    /\ Keep

\* onGenerate(..., suggestion, style): DraftReady -> Revising.
OnRegenerate(i) ==
    /\ CanRegenerate(flow[i])
    /\ flow' = [flow EXCEPT ![i].pending = "revise"]
    /\ Keep

\* The draft or the revision arrives and replaces the script, or the call
\* fails and the workflow is back where it was.
ScriptSettle(i) ==
    /\ flow[i].pending \in {"draft", "revise"}
    /\ \/ \E text \in DraftTexts :
              flow' = [flow EXCEPT ![i].pending = "none", ![i].script = text]
       \/ flow' = [flow EXCEPT ![i].pending = "none"]
    /\ Keep

\* onFinalize(jsonSceneDuration, numberOfScenes): DraftReady -> Finalizing.
OnFinalize(i) ==
    /\ CanFinalize(flow[i])
    /\ flow' = [flow EXCEPT ![i].pending = "finalize"]
    /\ Keep

\* finalizeScriptAsJson returns the stripped text, or throws.
FinalizeSettle(i) ==
    /\ flow[i].pending = "finalize"
    /\ \/ \E text \in FinalizeTexts :
              flow' = [flow EXCEPT ![i].pending = "none",
                                   ![i].finalJsonScript = StripFence(text),
                                   ![i].finalized = TRUE]
       \/ flow' = [flow EXCEPT ![i].pending = "none"]
    /\ Keep

\* SEO generation is invoked: sent when the workflow allows it, rejected
\* with no request otherwise.
OnGenerateSeo(i) ==
    /\ IF CanGenerateSeo(flow[i])
       THEN flow' = [flow EXCEPT ![i].pending = "seo", ![i].seoSent = TRUE]
       ELSE flow' = [flow EXCEPT ![i].seoRejected = TRUE]
    /\ Keep

\* generateSeoContent returns the parsed content, or throws.
SeoSettle(i) ==
    /\ flow[i].pending = "seo"
    /\ \/ \E text \in SeoTexts :
              /\ IsJsonValue(Trim(text))
              /\ flow' = [flow EXCEPT ![i].pending = "none",
                                      ![i].seoContent = JsonParse(Trim(text))]
       \/ flow' = [flow EXCEPT ![i].pending = "none"]
    /\ Keep

(***************************************************************************)
(* ScriptGeneratorModal: its state, its effects and its buttons.  The      *)
(* props script, isLoading and finalJsonScript are set by the workflow     *)
(* behind onGenerate and onFinalize, which follows the specification.      *)
(***************************************************************************)
\* undefined (no character is called UNDEFINED).
Undefined == <<"UNDEFINED">>

\* The value of a run of decimal digits.
DigitValue(c) ==
    CHOOSE n \in 0..9 : <<"0", "1", "2", "3", "4", "5", "6", "7", "8", "9">>[n + 1] = c
RECURSIVE DecimalValue(_)
DecimalValue(ds) ==
    IF ds = <<>> THEN 0
    ELSE 10 * DecimalValue(SubSeq(ds, 1, Len(ds) - 1)) + DigitValue(ds[Len(ds)])

\* A number | undefined argument.
NotANumber == [kind |-> "NaN", value |-> 0]
NoNumber == [kind |-> "undefined", value |-> 0]
Number(n) == [kind |-> "number", value |-> n]

\* parseInt(s, 10): leading white space, a sign, then the digits up to the
\* first character that is none; NaN when there is no digit.
parseInt(s) ==
    LET t == TrimStart(s)
        sign == IF t # <<>> /\ t[1] \in {"-", "+"} THEN 1 ELSE 0
        d == RunLen(t, sign + 1, Digits)
        v == DecimalValue(SubSeq(t, sign + 1, sign + d))
    IN  IF d = 0 THEN NotANumber
        ELSE IF sign = 1 /\ t[1] = "-" THEN Number(0 - v)
        ELSE Number(v)

\* What the user types into the three inputs.
SuggestionInputs == {<<>>, <<"S", "h", "o", "r", "t", "e", "r">>}
SceneDurationInputs == {<<>>, <<"4">>, <<"1", "5">>, <<"6", "1">>}
SceneCountInputs == {<<>>, <<"0">>, <<"-", "1">>, <<"3">>}

\* The drafts the stream delivers: the text received so far after a fragment
\* (a section of suggestions, then the separator and the scene table).
BoldLine == <<"2", ".", " ", "*", "*", "B", "o", "l", "d", ":", "*", "*", " ", "l", "o", "u", "d">>
CalmBoldLead == Join(<<SuggestionsHeader, CalmLine, BoldLine>>, <<"\n">>)
BoldLead == Join(<<SuggestionsHeader, BoldLine>>, <<"\n">>)
StreamTexts ==
    {CalmBoldLead, CalmBoldLead \o Separator \o TableText,
     BoldLead, BoldLead \o Separator \o TableText,
     TableText}

IsProperPrefix(a, b) == Len(a) < Len(b) /\ SubSeq(b, 1, Len(a)) = a

\* Bound: the calls the workflow holds unsettled stop being added there.
MaxInFlight == 2

\* The props of the modal as the guards of the buttons read them.
Props ==
    [script |-> script, finalJsonScript |-> finalJsonScript,
     pending |-> IF calls = <<>> THEN "none" ELSE calls[1].button]

\* A call of onGenerate or onFinalize with the arguments the claims are
\* about (duration, noNarration and language take no part in any guard).
Call(button, sceneDuration, scenes, text, style) ==
    [button |-> button, sceneDuration |-> sceneDuration, numberOfScenes |-> scenes,
     suggestion |-> text, selectedNarrationStyle |-> style, streamed |-> FALSE]

\* Lines 66-76, one flush of the two effects after the render of script s1
\* with the style x1, the render before it having had s0 and x0: the effect
\* of lines 66-70 runs when parsedSuggestions (recomputed when
\* narrationSuggestions changes) or the style changed, then the effect of
\* lines 72-76 when script changed; their state updates are applied in that
\* order, so the last one decides.
EffectsFlush(s0, x0, s1, x1) ==
    LET narration0 == SplitScript(s0).narrationSuggestions
        narration1 == SplitScript(s1).narrationSuggestions
        parsed == ParseSuggestions(narration1)
        selectFirst ==
            /\ narration1 # narration0 \/ x1 # x0
            /\ Len(parsed) > 0 /\ ~Truthy(x1)
        reset == s1 # s0 /\ Truthy(s1)
    IN  IF reset THEN Null
        ELSE IF selectFirst THEN parsed[1].name
        ELSE x1

\* The renders and effect flushes that follow a change, until a flush
\* changes no state: the style selected then.
RECURSIVE SettleEffects(_, _, _, _)
SettleEffects(s0, x0, s1, x1) ==
    LET x2 == EffectsFlush(s0, x0, s1, x1)
    IN  IF x2 = x1 THEN x1 ELSE SettleEffects(s1, x1, s1, x2)

\* The render with a new script prop: the memos of lines 40-64, then the
\* effects.
RenderWith(s) ==
    /\ script' = s
    /\ narrationSuggestions' = SplitScript(s).narrationSuggestions
    /\ scriptTable' = SplitScript(s).scriptTable
    /\ parsedSuggestions' = ParseSuggestions(SplitScript(s).narrationSuggestions)
    /\ rendered' = TRUE
    /\ selectedNarrationStyle' = SettleEffects(script, selectedNarrationStyle, s, selectedNarrationStyle)
    /\ picked' = FALSE

PanelIdle ==
    /\ finalJsonScript = Null
    /\ suggestion = <<>>
    /\ jsonSceneDuration = <<"1", "5">>
    /\ selectedNarrationStyle = Null
    /\ numberOfScenes = <<>>
    /\ calls = <<>>
    /\ picked = FALSE

\* Lines 30-37: the modal before any script.
PanelInit == ModalIdle /\ PanelIdle

Rest == UNCHANGED <<fenceVars, topicsVars, orchVars, flow, tableVars, jsonVars>>

\* Line 326: the revision panel is rendered; line 397: the footer is.
PanelShown == Truthy(script) /\ ~Truthy(finalJsonScript)

\* Line 362: onChange of the suggestion input.
setSuggestion ==
    /\ PanelShown
    /\ \E v \in SuggestionInputs : suggestion' = v
    /\ UNCHANGED <<finalJsonScript, jsonSceneDuration, selectedNarrationStyle,
                   numberOfScenes, calls, picked, modalVars>>
    /\ Rest

\* Line 407: onChange of the scene count input.
setNumberOfScenes ==
    /\ PanelShown
    /\ \E v \in SceneCountInputs : numberOfScenes' = v
    /\ UNCHANGED <<finalJsonScript, suggestion, jsonSceneDuration,
                   selectedNarrationStyle, calls, picked, modalVars>>
    /\ Rest

\* Line 420: onChange of the scene duration input.
setJsonSceneDuration ==
    /\ PanelShown
    /\ \E v \in SceneDurationInputs : jsonSceneDuration' = v
    /\ UNCHANGED <<finalJsonScript, suggestion, selectedNarrationStyle,
                   numberOfScenes, calls, picked, modalVars>>
    /\ Rest

\* Lines 279-293: the radio of a parsed suggestion is chosen.
setSelectedNarrationStyle ==
    /\ Truthy(script)
    /\ \E k \in 1..Len(parsedSuggestions) :
           selectedNarrationStyle' =
               SettleEffects(script, selectedNarrationStyle, script,
                             parsedSuggestions[k].name)
    /\ picked' = TRUE
    /\ UNCHANGED <<finalJsonScript, suggestion, jsonSceneDuration, numberOfScenes,
                   calls, modalVars>>
    /\ Rest

\* The workflow takes a call: isLoading is true until it settles.
Issue(call) ==
    /\ Len(calls) < MaxInFlight
    /\ calls' = Append(calls, call)
    /\ UNCHANGED <<finalJsonScript, suggestion, jsonSceneDuration,
                   selectedNarrationStyle, numberOfScenes, picked, modalVars>>
    /\ Rest

\* Lines 233 and 254: onGenerate(duration, noNarration, language).
GenerateClick ==
    /\ CanGenerate(Props)
    /\ Issue(Call("generate", Undefined, NoNumber, Undefined, Undefined))

\* A variant of the Regenerate button that is enabled without a suggestion.
RegenerateEnabledWithoutText == CanRegenerate(Props)

\* Lines 326 and 367: the Regenerate button is rendered and not disabled.
RegenerateEnabled == CanRegenerate(Props) /\ Truthy(suggestion)

\* Lines 365-367: onGenerate(duration, noNarration, language, suggestion,
\* selectedNarrationStyle ?? undefined).
RegenerateClick ==
    /\ RegenerateEnabled
    /\ Issue(Call("regenerate", Undefined, NoNumber, suggestion,
                  IF selectedNarrationStyle = Null THEN Undefined
                  ELSE selectedNarrationStyle))

\* Lines 427-429: onFinalize(jsonSceneDuration,
\* numberOfScenes ? parseInt(numberOfScenes, 10) : undefined).
FinalizeClick ==
    /\ CanFinalize(Props)
    /\ Issue(Call("finalize", jsonSceneDuration,
                  IF Truthy(numberOfScenes) THEN parseInt(numberOfScenes) ELSE NoNumber,
                  Undefined, Undefined))

\* A fragment of the streamed draft arrives: the draft is the text received
\* so far, and the modal renders it.
ScriptFragment ==
    /\ calls # <<>> /\ calls[1].button \in {"generate", "regenerate"}
    /\ \E text \in StreamTexts :
           /\ IsProperPrefix(IF calls[1].streamed THEN script ELSE <<>>, text)
           /\ RenderWith(text)
    /\ calls' = [calls EXCEPT ![1].streamed = TRUE]
    /\ UNCHANGED <<finalJsonScript, suggestion, jsonSceneDuration, numberOfScenes>>
    /\ Rest

\* The stream ends, or the call fails: isLoading is false again.
ScriptStreamEnd ==
    /\ calls # <<>> /\ calls[1].button \in {"generate", "regenerate"}
    /\ calls' = Tail(calls)
    /\ UNCHANGED <<finalJsonScript, suggestion, jsonSceneDuration,
                   selectedNarrationStyle, numberOfScenes, picked, modalVars>>
    /\ Rest

\* finalizeScriptAsJson returns the stripped text, or throws.
FinalizeReturn ==
    /\ calls # <<>> /\ calls[1].button = "finalize"
    /\ \/ \E text \in FinalizeTexts : finalJsonScript' = StripFence(text)
       \/ UNCHANGED finalJsonScript
    /\ calls' = Tail(calls)
    /\ UNCHANGED <<suggestion, jsonSceneDuration, selectedNarrationStyle,
                   numberOfScenes, picked, modalVars>>
    /\ Rest


(***************************************************************************)
(* The views of a finalized script: renderFinalJson of the script          *)
(* generator modal (ScriptGeneratorModal.tsx, lines 139-167) and           *)
(* renderJson of the history detail modal (HistoryDetailModal.tsx, lines   *)
(* 29-33).                                                                 *)
(***************************************************************************)
\* The list of <details>, one for each scene of the parsed array; a render
\* that threw.
Scenes(parsed) == [kind |-> "scenes", text |-> parsed, header |-> <<>>, rows |-> <<>>]
Threw == [kind |-> "threw", text |-> <<>>, header |-> <<>>, rows |-> <<>>]

\* Array.isArray(JSON.parse(s)) for a text that parses.
IsJsonArray(s) == Trim(s)[1] = "["

\* The nesting depth of brackets before position i of u.
Depth(u, i) ==
    Cardinality({k \in 1..(i - 1) : u[k] = "["}) - Cardinality({k \in 1..(i - 1) : u[k] = "]"})

\* The elements of an array, u being the text between its brackets.
RECURSIVE Elements(_)
Elements(u) ==
    LET commas == {i \in 1..Len(u) : u[i] = "," /\ Depth(u, i) = 0}
        c == CHOOSE i \in commas : \A j \in commas : i <= j
    IN  IF commas = {} THEN <<u>>
        ELSE <<SubSeq(u, 1, c - 1)>> \o Elements(SubSeq(u, c + 1, Len(u)))

\* JSON.stringify(value, null, 2), value being given by its text without
\* white space and indent being the indentation of the line it starts on.
RECURSIVE Stringify(_, _)
Stringify(t, indent) ==
    IF t[1] # "[" \/ Len(t) = 2 THEN t
    ELSE LET items == Elements(SubSeq(t, 2, Len(t) - 1))
             inner == indent \o <<" ", " ">>
         IN  <<"[", "\n">>
             \o Join([k \in 1..Len(items) |-> inner \o Stringify(items[k], inner)],
                     <<",", "\n">>)
             \o <<"\n">> \o indent \o <<"]">>

\* ScriptGeneratorModal.tsx, lines 139-167: the scenes of an array that
\* parses, the text itself otherwise.  None of the values of the model makes
\* scene.scene or JSON.stringify(scene) throw.
renderFinalJson(s) ==
    IF IsJsonValue(s) /\ IsJsonArray(s) THEN Scenes(JsonParse(s)) ELSE Pre(s)

\* HistoryDetailModal.tsx, lines 29-33: JSON.parse is not guarded, so a text
\* that does not parse makes the render throw.
renderJson(s) ==
    IF IsJsonValue(s) THEN Pre(Stringify(JsonParse(s), <<>>)) ELSE Threw

\* Bound: the length of a finalized script.
MaxJsonLen == 4

\* Finalized scripts: finalizeScriptAsJson returns whatever text is left
\* after the fence stripping, parseable or not.
JsonStrings == SeqsUpTo({"[", "]", "1", ",", " ", "{", "}"}, MaxJsonLen)

JsonIdle == jsonString = <<>> /\ finalView = NoView /\ historyView = NoView

JsonInit == jsonString \in JsonStrings /\ finalView = NoView /\ historyView = NoView

\* ScriptGeneratorModal.tsx, lines 376-391: finalJsonScript &&
\* renderFinalJson(finalJsonScript).
RenderFinalJson ==
    /\ finalView = NoView
    /\ jsonString # <<>>
    /\ finalView' = renderFinalJson(jsonString)
    /\ UNCHANGED <<jsonString, historyView, fenceVars, topicsVars, modalVars, orchVars,
                   flow, tableVars, panelVars>>

\* HistoryDetailModal.tsx, line 111: renderJson(item.jsonScript).
RenderHistoryJson ==
    /\ historyView = NoView
    /\ historyView' = renderJson(jsonString)
    /\ UNCHANGED <<jsonString, finalView, fenceVars, topicsVars, modalVars, orchVars,
                   flow, tableVars, panelVars>>

UiIdle == TableIdle /\ PanelIdle /\ JsonIdle

(***************************************************************************)
(* Fence stripping (finalizeScriptAsJson).                                 *)
(***************************************************************************)
\* The response is a body wrapped in an opening and a closing fence marker.
FenceWrapped == fenceParts.open # <<>> /\ fenceParts.close = Fence

\* C7: for every response that is a JSON body wrapped in one fenced-code
\* block (opening marker with or without the json tag, closing marker,
\* optional whitespace around each), the result is exactly the body without
\* the markers and the surrounding whitespace, and neither starts nor ends
\* with a fence marker; the fenced scene array yields the scene array.
FenceStrippedToBody ==
    (fenceRuns # <<>> /\ FenceWrapped /\ fenceParts.body # <<>>) =>
        /\ fenceRuns[1] = Trim(fenceParts.body)
        /\ ~StartsWith(fenceRuns[1], Fence)
        /\ ~EndsWith(fenceRuns[1], Fence)

\* A string the strip-and-trim step has nothing to do on.
FenceClean(r) == Trim(r) = r /\ ~StartsWith(r, FenceJson) /\ ~EndsWith(r, Fence)

\* C8: the strip-and-trim step returns an already clean string unchanged,
\* and on a response wrapped in one fence a second run of the step returns
\* what the first run returned.
StripIdempotent ==
    /\ (fenceRuns # <<>> /\ FenceClean(fenceResponse)) => fenceRuns[1] = fenceResponse
    /\ (Len(fenceRuns) = 2 /\ FenceWrapped) => fenceRuns[2] = fenceRuns[1]

(***************************************************************************)
(* Trending topics (getTrendingTopics).                                    *)
(***************************************************************************)
UpperCase ==
    {"A", "B", "C", "D", "E", "F", "G", "H", "I", "J", "K", "L", "M", "N", "O",
     "P", "Q", "R", "S", "T", "U", "V", "W", "X", "Y", "Z"}

\* The positions that delimit the comma-separated pieces of t.
TopicBounds(t) == {0, Len(t) + 1} \cup {i \in 1..Len(t) : t[i] = ","}

\* The k-th delimiter of t, counted from 0.
TopicBound(t, k) ==
    CHOOSE i \in TopicBounds(t) : Cardinality({j \in TopicBounds(t) : j < i}) = k

\* The k-th piece of t without its surrounding whitespace, by positions.
TopicPiece(t, k) ==
    LET inside == {i \in (TopicBound(t, k - 1) + 1)..(TopicBound(t, k) - 1) :
                       ~IsSpace(t[i])}
        first == CHOOSE i \in inside : \A j \in inside : i <= j
        last == CHOOSE i \in inside : \A j \in inside : j <= i
    IN  IF inside = {} THEN <<>> ELSE SubSeq(t, first, last)

\* C9: a blank response gives the empty sequence; any other response gives
\* its comma-separated pieces in order, each without surrounding whitespace
\* and in lower case, one more piece than there are commas; "Cats, Dogs ,
\* Birds" gives cats, dogs, birds.
TopicsParsed ==
    topicsDone =>
        LET t == topicsResponse
            r == topicsResult
        IN  /\ (\A i \in 1..Len(t) : IsSpace(t[i])) => r = <<>>
            /\ (\E i \in 1..Len(t) : ~IsSpace(t[i])) =>
                   /\ Len(r) = Cardinality({i \in 1..Len(t) : t[i] = ","}) + 1
                   /\ \A k \in 1..Len(r) :
                          /\ Len(r[k]) = Len(TopicPiece(t, k))
                          /\ \A i \in 1..Len(r[k]) :
                                 /\ r[k][i] \notin UpperCase
                                 /\ r[k][i] = LowerChar(TopicPiece(t, k)[i])
            /\ t = TopicsExample =>
                   r = << <<"c", "a", "t", "s">>, <<"d", "o", "g", "s">>,
                          <<"b", "i", "r", "d", "s">> >>

\* The example response has been parsed into its three topics.
TopicsParsedWitness ==
    /\ topicsDone
    /\ topicsResponse = TopicsExample
    /\ Len(topicsResult) = 3

(***************************************************************************)
(* Narration suggestions (ScriptGeneratorModal).                           *)
(***************************************************************************)
CalmSuggestion ==
    [name |-> <<"C", "a", "l", "m">>,
     description |-> <<"s", "o", "f", "t", " ", "t", "o", "n", "e">>,
     justification |-> <<"b", "e", "c", "a", "u", "s", "e", " ", "i", "t", " ",
                         "f", "i", "t", "s">>]

\* The example draft with a header line before its suggestion line.
HeadedDraft ==
    DraftText(<<SuggestionsHeader, CalmLine>>, Separator, TableText)

\* C10 as stated: the example draft yields exactly the suggestion Calm /
\* soft tone / because it fits, and a scene table that begins at the line
\* after the --- separator.
ExampleDraftParsed ==
    (rendered /\ script = ExampleDraft) =>
        /\ parsedSuggestions = <<CalmSuggestion>>
        /\ scriptTable = TableText

\* C10 as amended: the example draft has no "suggested narration styles"
\* header before its separator, so it yields no suggestion and the whole
\* draft is the scene table; with such a header line before the suggestion
\* line it yields exactly the suggestion Calm / soft tone / because it fits
\* and the scene table that begins at the line after the --- separator.
ExampleDraftNeedsHeader ==
    rendered =>
        /\ script = ExampleDraft =>
               parsedSuggestions = <<>> /\ scriptTable = ExampleDraft
        /\ script = HeadedDraft =>
               parsedSuggestions = <<CalmSuggestion>> /\ scriptTable = TableText

\* The example draft has been rendered.
ExampleDraftRendered ==
    rendered /\ script = ExampleDraft /\ narrationSuggestions = Null

\* The lines of the draft, and those that consist only of "---".
ScriptLines == SplitChar(script, "\n")
DashLines == {k \in 1..Len(ScriptLines) : ScriptLines[k] = DashLine}
InnerDashLines == {k \in DashLines : 1 < k /\ k < Len(ScriptLines)}
FirstOf(S) == CHOOSE k \in S : \A j \in S : k <= j

\* The text before line k of the draft.
SectionBefore(k) == Join(SubSeq(ScriptLines, 1, k - 1), <<"\n">>)
HasSuggestionsHeader(text) == Includes(ToLowerCase(text), SuggestionsHeader)

\* No suggestion is offered and the scene table is the whole draft.
WholeDraftIsTable ==
    /\ narrationSuggestions = Null
    /\ parsedSuggestions = <<>>
    /\ scriptTable = script

\* C11 as stated: when the draft has no line consisting only of "---", or
\* the section before the first such line has no "suggested narration
\* styles" header (in any letter case), no narration suggestion is offered
\* and the scene table is the entire draft, unchanged.
HeaderlessDraftIsTable ==
    rendered =>
        ((DashLines = {} \/ ~HasSuggestionsHeader(SectionBefore(FirstOf(DashLines))))
            => WholeDraftIsTable)

\* C11 as amended: the separator is a "---" line with a line before it and
\* a line after it (a "---" on the first or the last line of the draft does
\* not separate).  When the draft has no such line, or the text before the
\* first of them has no "suggested narration styles" header, no narration
\* suggestion is offered and the scene table is the entire draft, unchanged.
HeaderlessDraftIsTableInner ==
    rendered =>
        ((InnerDashLines = {} \/
          ~HasSuggestionsHeader(SectionBefore(FirstOf(InnerDashLines))))
            => WholeDraftIsTable)

\* A draft with a separator line and no header before it has been rendered
\* whole.
HeaderlessDraftRendered ==
    /\ rendered
    /\ InnerDashLines # {}
    /\ ~HasSuggestionsHeader(SectionBefore(FirstOf(InnerDashLines)))
    /\ WholeDraftIsTable

(***************************************************************************)
(* The scene table view (renderScriptTable).                               *)
(***************************************************************************)
\* The lines of the trimmed text and the first of them that has a "|" and,
\* in any letter case, "timestamp".
MarkdownLines == SplitChar(Trim(markdown), "\n")
HeaderLinesAt == {k \in 1..Len(MarkdownLines) : IsHeaderLine(MarkdownLines[k])}
FirstHeader == FirstOf(HeaderLinesAt)

\* The pipe-delimited cells of a line, read off the positions of its pipes:
\* cell k lies between the k-th and the (k+1)-th of the bounds 0, the pipes
\* and the end.
PipeBounds(t) == {0, Len(t) + 1} \cup {i \in 1..Len(t) : t[i] = Pipe}
PipeBound(t, k) ==
    CHOOSE b \in PipeBounds(t) : Cardinality({c \in PipeBounds(t) : c < b}) = k - 1
PipeCell(t, k) == Trim(SubSeq(t, PipeBound(t, k) + 1, PipeBound(t, k + 1) - 1))
PipeCount(t) == Cardinality(PipeBounds(t)) - 1
Framed(t) == PipeCell(t, 1) = <<>> /\ PipeCell(t, PipeCount(t)) = <<>>

\* The number of cells of a row, and its cells: a row framed by an empty first
\* and an empty last cell is read without them.
CellCount(t) == IF Framed(t) THEN PipeCount(t) - 2 ELSE PipeCount(t)
CellsOf(t) ==
    IF Framed(t)
    THEN [k \in 1..(PipeCount(t) - 2) |-> PipeCell(t, k + 1)]
    ELSE [k \in 1..PipeCount(t) |-> PipeCell(t, k)]

\* The lines after the header line and the one row after it that have two
\* cells or more, and the j-th of them.
KeptRows ==
    {k \in (FirstHeader + 2)..Len(MarkdownLines) : CellCount(MarkdownLines[k]) >= 2}
KeptRow(j) == CHOOSE k \in KeptRows : Cardinality({m \in KeptRows : m < k}) = j - 1

\* The table block of the example: a Timestamp header row, the separator row
\* and the data row | 0:00 | Open |.
ExampleTable == Join(<<HeaderRow, <<"|", "-", "|", "-", "|">>, ExampleRow>>, <<"\n">>)

\* C12: renderScriptTable takes the first line with a "|" and "timestamp" (in
\* any letter case) for the header, skips exactly one row after it and makes
\* the remaining lines the data rows, in their order, discarding exactly the
\* rows of fewer than two cells; the example block gives exactly the one
\* data row ["0:00", "Open"].
TableRowsKept ==
    (tableView # NoView /\ HeaderLinesAt # {}) =>
        /\ tableView.kind = "table"
        /\ Len(tableView.rows) = Cardinality(KeptRows)
        /\ \A j \in 1..Len(tableView.rows) :
               tableView.rows[j] = CellsOf(MarkdownLines[KeptRow(j)])
        /\ markdown = ExampleTable =>
               tableView.rows = <<<<<<"0", ":", "0", "0">>, <<"O", "p", "e", "n">>>>>>

\* The example block has been rendered as a table.
ExampleTableRendered ==
    /\ markdown = ExampleTable
    /\ tableView.kind = "table"
    /\ Len(tableView.rows) = 1

\* A separator row: dashes between pipes, with colons and spaces.
IsSeparatorRow(line) ==
    /\ \E i \in 1..Len(line) : line[i] = "-"
    /\ \A i \in 1..Len(line) : line[i] \in {"|", "-", ":", " "}

\* The text has a header line that is not followed by a separator row.
SeparatorRowMissing ==
    /\ HeaderLinesAt # {}
    /\ \/ FirstHeader = Len(MarkdownLines)
       \/ ~IsSeparatorRow(MarkdownLines[FirstHeader + 1])

\* C13: renderScriptTable never throws; when the text has no header line with
\* a "timestamp" marker, or its structure is not a table's (no separator row
\* after the header line), the view is the verbatim source text.
TableFallsBackToText ==
    tableView # NoView =>
        /\ tableView.kind \in {"pre", "table"}
        /\ (HeaderLinesAt = {} \/ SeparatorRowMissing) => tableView = Pre(markdown)

(***************************************************************************)
(* The orchestrator's error handling and the video job.                    *)
(***************************************************************************)
\* C1 as stated: whatever the operation, invoked without a credential it
\* fails with the configuration error and has issued no network request.
ConfigFailFast ==
    (op \in Operations /\ ~keyAtCall) =>
        (pc = "thrown" /\ thrown = ConfigErrorMsg /\ requests = 0)

\* The operations that build a client of their own.
ClientOperations == {"ideas", "topics", "chat", "finalize", "seo", "video"}

\* C1 as amended: list ideas, list trending topics, open script
\* conversation, finalize script, generate SEO content and generate video,
\* invoked without a credential, fail with the configuration error and
\* issue no network request; draft script and revise script take an opened
\* conversation, do not look at the credential, and send their request.
ConfigFailFastWithClient ==
    /\ (op \in ClientOperations /\ ~keyAtCall) =>
           (pc = "thrown" /\ thrown = ConfigErrorMsg /\ requests = 0)
    /\ (op \in {"draft", "revise"} /\ ~keyAtCall) =>
           (requests = 1 /\ thrown # ConfigErrorMsg)

\* SEO generation was invoked without a credential and has thrown.
ConfigFailFastWitness ==
    op = "seo" /\ ~keyAtCall /\ pc = "thrown" /\ requests = 0

\* C2: generateShortsIdeas invoked without a credential, for every genre
\* and duration, throws the configuration error and not the generic
\* failure of the call.
IdeasConfigError ==
    \A g \in Genres, d \in Durations :
        (op = "ideas" /\ ~keyAtCall /\ args = [genre |-> g, duration |-> d]) =>
            /\ pc = "thrown"
            /\ thrown = ConfigErrorMsg
            /\ thrown # IdeasFailMsg
            /\ requests = 0

\* Ideas were asked for without a credential.
IdeasConfigErrorWitness ==
    /\ op = "ideas" /\ ~keyAtCall /\ pc = "thrown"
    /\ args = [genre |-> "Horror", duration |-> "Shorts60"]

\* C3 as stated: an unparseable SEO text makes generateSeoContent fail,
\* without SEO content, with an error that differs from the one a failure
\* of the call raises.
SeoFormatErrorDistinct ==
    (op = "seo" /\ cause = "parse") =>
        (pc = "thrown" /\ returned = NoValue /\ thrown # SeoFailMsg)

\* C3 as amended: an unparseable SEO text makes generateSeoContent fail,
\* without SEO content, with the same generic error as a failure of the
\* call; SEO content is returned only for a text that parses.
SeoParseFailureGeneric ==
    /\ (op = "seo" /\ cause = "parse") =>
           (pc = "thrown" /\ returned = NoValue /\ thrown = SeoFailMsg)
    /\ (op = "seo" /\ cause = "transport") => thrown = SeoFailMsg
    /\ (op = "seo" /\ pc = "returned") =>
           (returned.kind = "seo" /\ IsJsonValue(returned.value))

\* SEO generation has failed on an unparseable text.
SeoParseFailureWitness == op = "seo" /\ cause = "parse" /\ pc = "thrown"

\* C5: in generateVideoForIdea a status poll is issued only after the
\* submit and while the status last received is not done; the download is
\* fetched only once the job was seen done with a link; a done job without
\* a link throws and nothing is fetched; a handle is returned only after a
\* download response that was ok.
VideoStepsInOrder ==
    /\ []((fetches > 0 \/ pc \in {"fetching", "blob"}) =>
              (op = "video" /\ operation.done /\ operation.uri))
    /\ []((op = "video" /\ operation.done /\ ~operation.uri /\ pc # "loop") =>
              (pc = "thrown" /\ thrown = NoLinkMsg /\ fetches = 0))
    /\ []((op = "video" /\ pc = "returned") =>
              (responseOk /\ fetches = 1 /\ operation.done /\ operation.uri))
    /\ [][(pc' = "polling" /\ pc # "polling") =>
              (op = "video" /\ pc = "loop" /\ ~operation.done /\ requests >= 1)]_vars
    /\ [][fetches' > fetches => (pc = "loop" /\ operation.done /\ operation.uri)]_vars
    /\ [][(op = "video" /\ op' = "video" /\ pc' = "returned" /\ pc # "returned") =>
              (pc = "blob" /\ responseOk)]_vars

\* A video was returned after two status polls.
VideoReturnedWitness ==
    op = "video" /\ pc = "returned" /\ polls = 2 /\ returned.kind = "url"

\* C6: the poll loop is left only when the job is seen done or a poll
\* fails, whatever the number of polls; a failed poll throws at once, and
\* once the job is seen done the call returns or throws.
VideoWaitUnbounded ==
    /\ [][(op = "video" /\ pc \in {"loop", "polling"} /\ pc' \notin {"loop", "polling"}) =>
              (operation.done \/ cause' = "transport")]_vars
    /\ [][(pc = "polling" /\ cause' = "transport") => pc' = "thrown"]_vars
    /\ (op = "video" /\ pc = "loop" /\ operation.done) ~> (pc \in {"returned", "thrown"})

\* The loop is still polling when the count of polls has reached its bound.
VideoStillPolling ==
    op = "video" /\ pc = "polling" /\ polls = MaxPolls /\ ~operation.done

CallIssued == Len(calls') > Len(calls)
IssuedCall == calls'[Len(calls')]

\* The entered duration is a number from 5 to 60; the scene count passed is
\* absent or a positive integer.
IsDigits(s) == s # <<>> /\ \A i \in 1..Len(s) : s[i] \in Digits
DurationInRange(s) == IsDigits(s) /\ DecimalValue(s) >= 5 /\ DecimalValue(s) <= 60
SceneCountValid(n) == n = NoNumber \/ (n.kind = "number" /\ n.value >= 1)

\* C14: onFinalize is called only with a max-scene-duration that is a number
\* from 5 to 60 and a scene count that is absent or a positive integer.
FinalizeValidated ==
    \A k \in 1..Len(calls) :
        calls[k].button = "finalize" =>
            /\ DurationInRange(calls[k].sceneDuration)
            /\ SceneCountValid(calls[k].numberOfScenes)

\* C15: a revise call (onGenerate with a suggestion) is issued only from a
\* state whose suggestion text is not empty, and it carries that text.
RegenerateNeedsSuggestion ==
    [][(CallIssued /\ IssuedCall.button = "regenerate") =>
           (suggestion # <<>> /\ IssuedCall.suggestion = suggestion)]_vars

\* A revise call with the typed suggestion is in flight.
RegenerateIssued ==
    /\ calls # <<>>
    /\ calls[1].button = "regenerate"
    /\ calls[1].suggestion # <<>>

\* C17: at most one call of the workflow is outstanding: while isLoading is
\* true no generate, regenerate or finalize call starts.
OneCallInFlight ==
    /\ Len(calls) <= 1
    /\ calls # <<>> => ~(CanGenerate(Props) \/ RegenerateEnabled \/ CanFinalize(Props))

\* A call is in flight over a draft with a suggestion typed, where only
\* isLoading keeps the buttons from issuing another.
LoadingOverDraft ==
    /\ Len(calls) = 1
    /\ Truthy(script) /\ ~Truthy(finalJsonScript) /\ Truthy(suggestion)

\* C18: a revise or finalize call is issued only from a state with a
\* non-empty script and no finalized script.
ReviseFinalizeNeedDraft ==
    [][(CallIssued /\ IssuedCall.button \in {"regenerate", "finalize"}) =>
           (Truthy(script) /\ ~Truthy(finalJsonScript))]_vars

\* A finalized script is shown and no call is in flight: the revision panel
\* and the footer are gone.
FinalizedShown ==
    /\ Truthy(script) /\ Truthy(finalJsonScript)
    /\ calls = <<>>
    /\ ~RegenerateEnabled /\ ~CanFinalize(Props)

\* C19: when a draft with parsed suggestions is displayed and the effects
\* have settled, one of the suggestions is selected, the first one unless
\* the user picked another for this draft, and a revise call issued then
\* passes the selected name.
StyleSelectedByDefault ==
    /\ (Truthy(script) /\ Len(parsedSuggestions) > 0) =>
           /\ \E k \in 1..Len(parsedSuggestions) :
                  selectedNarrationStyle = parsedSuggestions[k].name
           /\ ~picked => selectedNarrationStyle = parsedSuggestions[1].name
    /\ \A k \in 1..Len(calls) :
           calls[k].button = "regenerate" => calls[k].selectedNarrationStyle # Undefined

(***************************************************************************)
(* Failed requests, and the views of a finalized script.                   *)
(***************************************************************************)
\* The fixed text an operation throws for a failed request.
GenericText(o) ==
    CASE o = "ideas" -> IdeasFailMsg
      [] o = "draft" -> DraftFailMsg
      [] o = "revise" -> ReviseFailMsg
      [] o = "finalize" -> FinalizeFailMsg
      [] o = "topics" -> TopicsFailMsg
      [] o = "seo" -> SeoFailMsg
      [] OTHER -> UnknownVideoMsg

\* The messages of the errors a failed request raises.
TransportMessages == {f.message : f \in {g \in Failures : g.isError}}

\* C16 as stated: whatever the operation, a failed request ends the call
\* with a thrown error, never with a returned value, and the message thrown
\* is the operation's fixed text, whatever the message of the failure.
TransportFailureGeneric ==
    cause = "transport" =>
        /\ pc = "thrown" /\ returned = NoValue
        /\ thrown = GenericText(op)

\* C16 as amended: a failed request ends the call with a thrown error, never
\* with a returned value; every operation but the video generation throws
\* its fixed text, and the video generation throws the message of the
\* failure itself, its fixed text only for a failure that is no Error.
TransportFailureRethrown ==
    cause = "transport" =>
        /\ pc = "thrown" /\ returned = NoValue
        /\ op # "video" => thrown = GenericText(op)
        /\ op = "video" => thrown \in TransportMessages \cup {UnknownVideoMsg}

\* The video generation has thrown the message of a failed request.
VideoFailureRethrown ==
    /\ op = "video" /\ pc = "thrown" /\ cause = "transport"
    /\ thrown = "Quota exceeded"

\* C20: showing a finalized script never fails the view: whatever the text,
\* neither the script generator modal nor the history detail modal throws,
\* and a text that does not parse is shown as it is.
FinalScriptViewsNeverFail ==
    /\ finalView # Threw /\ historyView # Threw
    /\ ~IsJsonValue(jsonString) =>
           /\ finalView # NoView => finalView = Pre(jsonString)
           /\ historyView # NoView => historyView = Pre(jsonString)

(***************************************************************************)
(* Specifications.                                                         *)
(***************************************************************************)
Init ==
    OrchInit /\ FenceIdle /\ TopicsIdle /\ ModalIdle /\ FlowIdle /\ UiIdle
Next ==
    \/ SetApiKey
    \/ generateShortsIdeas \/ generateShortsIdeasSettle
    \/ getTrendingTopics \/ getTrendingTopicsSettle
    \/ startScriptChat
    \/ generateInitialScriptStream \/ generateInitialScriptStreamSettle
    \/ regenerateScriptStream \/ regenerateScriptStreamSettle
    \/ finalizeScriptAsJson \/ finalizeScriptAsJsonSettle
    \/ generateSeoContent \/ generateSeoContentSettle
    \/ generateVideoForIdea \/ VideoSubmitSettle \/ VideoPoll \/ VideoPollSettle
    \/ VideoDownload \/ VideoFetchSettle \/ VideoBlobSettle
Spec == Init /\ [][Next]_vars

\* The timers fire, the continuations of the call run and every awaited
\* request settles.
SpecFair ==
    /\ Spec
    /\ WF_vars(VideoSubmitSettle) /\ WF_vars(VideoPoll) /\ WF_vars(VideoPollSettle)
    /\ WF_vars(VideoDownload) /\ WF_vars(VideoFetchSettle) /\ WF_vars(VideoBlobSettle)

SpecFenceInit ==
    FenceInit /\ TopicsIdle /\ ModalIdle /\ OrchIdle /\ FlowIdle /\ UiIdle
SpecFenceNext == StripRun
SpecFence == SpecFenceInit /\ [][SpecFenceNext]_vars

SpecTopicsInit ==
    TopicsInit /\ FenceIdle /\ ModalIdle /\ OrchIdle /\ FlowIdle /\ UiIdle
SpecTopicsNext == TopicsParse
SpecTopics == SpecTopicsInit /\ [][SpecTopicsNext]_vars

SpecModalInit ==
    ModalInit /\ FenceIdle /\ TopicsIdle /\ OrchIdle /\ FlowIdle /\ UiIdle
SpecModalNext == RenderScript
SpecModal == SpecModalInit /\ [][SpecModalNext]_vars

SpecTableInit ==
    /\ TableInit /\ FenceIdle /\ TopicsIdle /\ ModalIdle /\ OrchIdle /\ FlowIdle
    /\ PanelIdle /\ JsonIdle
SpecTableNext == RenderTable
SpecTable == SpecTableInit /\ [][SpecTableNext]_vars

SpecPanelInit ==
    /\ PanelInit /\ TableIdle /\ FenceIdle /\ TopicsIdle /\ OrchIdle /\ FlowIdle
    /\ JsonIdle
SpecPanelNext ==
    \/ setSuggestion \/ setNumberOfScenes \/ setJsonSceneDuration
    \/ setSelectedNarrationStyle
    \/ GenerateClick \/ RegenerateClick \/ FinalizeClick
    \/ ScriptFragment \/ ScriptStreamEnd \/ FinalizeReturn
SpecPanel == SpecPanelInit /\ [][SpecPanelNext]_vars

SpecJsonInit ==
    /\ JsonInit /\ TableIdle /\ PanelIdle /\ FenceIdle /\ TopicsIdle /\ ModalIdle
    /\ OrchIdle /\ FlowIdle
SpecJsonNext == RenderFinalJson \/ RenderHistoryJson
SpecJson == SpecJsonInit /\ [][SpecJsonNext]_vars

SpecFlowInit ==
    FlowInit /\ FenceIdle /\ TopicsIdle /\ ModalIdle /\ OrchIdle /\ UiIdle
SpecFlowNext ==
    \E i \in Ideas :
        \/ OnGenerate(i) \/ OnRegenerate(i) \/ ScriptSettle(i)
        \/ OnFinalize(i) \/ FinalizeSettle(i)
        \/ OnGenerateSeo(i) \/ SeoSettle(i)
SpecFlow == SpecFlowInit /\ [][SpecFlowNext]_vars

=============================================================================
